---- MODULE Spec2Model ----
(***************************************************************************)
(* A model of the arbitrage scanner (src/arbitrage_scanner.py):            *)
(*   - MarketPrice.mid and ArbitrageEngine.process_prices, as operators    *)
(*     computed the way the code computes them;                            *)
(*   - the two collectors' fetch_markets and the scan loop of main, as a   *)
(*     state machine with one position per suspension point.               *)
(*                                                                         *)
(* Numbers.  Prices are floats in the code.  Here a price is a record      *)
(* [nan, v]: either NaN, or the integer v in units of 1/200 (half a cent), *)
(* so that the mid of two whole-cent prices is again an integer.  Spreads  *)
(* are exact fractions of integers in tenths of a percent.  Rounding of    *)
(* binary floating point is not modelled.                                  *)
(*                                                                         *)
(* Strings.  event_name and outcome are sequences of one-character         *)
(* strings, so that lower() and the concatenation of the join key are      *)
(* computed character by character.                                        *)
(***************************************************************************)
EXTENDS Integers, Sequences, FiniteSets, TLC

VARIABLES
    prices,         \* process_prices' argument (main: all_prices)
    called,         \* process_prices has run on prices
    grouped,        \* process_prices' local: the insertion-ordered dict key -> quotes
    opportunities,  \* process_prices' return value
    raised,         \* process_prices ended with ZeroDivisionError
    pc,             \* position of the program
    iteration,      \* main's scan counter
    collector,      \* index into main's collectors list
    todo,           \* markets of the current list response still to visit
    fetched,        \* fetch_markets' local list prices
    delay,          \* seconds asked of the last asyncio.sleep
    exit_code,      \* process exit status, -1 while running
    log             \* this cycle's requests and interrupts, and how each ended

vars == <<prices, called, grouped, opportunities, raised, pc, iteration,
          collector, todo, fetched, delay, exit_code, log>>

engineVars == <<prices, called, grouped, opportunities, raised>>
loopVars == <<pc, iteration, collector, todo, fetched, delay, exit_code, log>>

-----------------------------------------------------------------------------
(* Bounds of the model *)

MaxQuotes == 3      \* longest quote list handed to process_prices directly
MaxMarkets == 2     \* most markets in one list response
MaxCycles == 2      \* scan cycles explored
MaxListed == 1      \* most markets in one list response when progress is checked

(* Program constants *)

MIN_SPREAD_PCT == 25    \* 2.5 percent, in tenths of a percent
POLL_INTERVAL == 5      \* seconds
BACKOFF == 10           \* seconds, the sleep of main's except branch
fee_pct == 10           \* 1.0 percent, in tenths of a percent
DEFAULT_MID == 100      \* 0.5, in units of 1/200

min_spread == MIN_SPREAD_PCT    \* ArbitrageEngine(min_spread=MIN_SPREAD_PCT)

\* F(e), with e evaluated once (a local variable holding a value)
Bind(e, F(_)) == CHOOSE y \in {F(x) : x \in {e}} : TRUE

-----------------------------------------------------------------------------
(* Floats *)

Num(v) == [nan |-> FALSE, v |-> v]
NaN == [nan |-> TRUE, v |-> 0]

\* bool(x): every float but 0.0 is true, NaN included
Truthy(x) == x.nan \/ x.v # 0

FAdd(x, y) == IF x.nan \/ y.nan THEN NaN ELSE Num(x.v + y.v)
FHalf(x) == IF x.nan THEN NaN ELSE Num(x.v \div 2)

\* x > y and x <= y: every comparison with NaN is false
FGt(x, y) == ~x.nan /\ ~y.nan /\ x.v > y.v
FLe(x, y) == ~x.nan /\ ~y.nan /\ x.v <= y.v

\* A percentage: NaN, or the fraction num/den of tenths of a percent
Pct(num, den) == [nan |-> FALSE, num |-> num, den |-> den]
PctNaN == [nan |-> TRUE, num |-> 0, den |-> 1]

\* f >= k for a fraction f with den # 0 and an integer k (false for NaN)
PctGe(f, k) ==
    /\ ~f.nan
    /\ IF f.den > 0 THEN f.num >= k * f.den ELSE f.num <= k * f.den

\* two fractions denote the same number
PctEq(f, g) ==
    IF f.nan \/ g.nan THEN f.nan /\ g.nan ELSE f.num * g.den = g.num * f.den

-----------------------------------------------------------------------------
(* Strings *)

\* the upper-case letters of the event names used here, to lower case
LowerChar(c) ==
    CASE c = "F" -> "f"
      [] c = "E" -> "e"
      [] c = "D" -> "d"
      [] c = "G" -> "g"
      [] c = "P" -> "p"
      [] OTHER -> c

\* str.lower()
Lower(s) == [i \in 1..Len(s) |-> LowerChar(s[i])]

-----------------------------------------------------------------------------
(* MarketPrice *)

MarketPrice(platform, event_id, event_name, outcome, bid, ask) ==
    [platform |-> platform, event_id |-> event_id, event_name |-> event_name,
     outcome |-> outcome, bid |-> bid, ask |-> ask]

\* MarketPrice.mid
mid(p) ==
    IF Truthy(p.bid) /\ Truthy(p.ask) THEN FHalf(FAdd(p.bid, p.ask))
    ELSE Num(DEFAULT_MID)

-----------------------------------------------------------------------------
(* ArbitrageEngine.process_prices *)

\* a join key that leaves the outcome out
Key_NoOutcome(price) == Lower(price.event_name)

\* key = f"{price.event_name.lower()}|{price.outcome}"
Key(price) == Lower(price.event_name) \o <<"|">> \o price.outcome

\* grouped[key].append(price) on an insertion-ordered dict
GroupAppend(g, price) ==
    IF \E i \in 1..Len(g) : g[i].key = Key(price)
    THEN LET i == CHOOSE i \in 1..Len(g) : g[i].key = Key(price)
         IN  [g EXCEPT ![i].prices = Append(@, price)]
    ELSE Append(g, [key |-> Key(price), prices |-> <<price>>])

RECURSIVE GroupUpTo(_, _)
GroupUpTo(ps, n) ==
    IF n = 0 THEN <<>>
    ELSE Bind(GroupUpTo(ps, n - 1), LAMBDA g : GroupAppend(g, ps[n]))

\* the first loop of process_prices
Grouped(ps) == GroupUpTo(ps, Len(ps))

\* a dict step that keeps a platform's first quote
PlatformPut_FirstWins(d, p) ==
    IF \E i \in 1..Len(d) : d[i].name = p.platform
    THEN d
    ELSE Append(d, [name |-> p.platform, quote |-> p])

\* one step of {p.platform: p for p in event_prices}: a platform keeps the
\* place of its first quote and the value of its last
PlatformPut(d, p) ==
    IF \E i \in 1..Len(d) : d[i].name = p.platform
    THEN LET i == CHOOSE i \in 1..Len(d) : d[i].name = p.platform
         IN  [d EXCEPT ![i].quote = p]
    ELSE Append(d, [name |-> p.platform, quote |-> p])

RECURSIVE PlatformsUpTo(_, _)
PlatformsUpTo(event_prices, n) ==
    IF n = 0 THEN <<>>
    ELSE Bind(PlatformsUpTo(event_prices, n - 1),
              LAMBDA d : PlatformPut(d, event_prices[n]))

\* a platform list with one entry per quote
RECURSIVE PlatformList_PerQuote(_)
PlatformList_PerQuote(event_prices) ==
    IF event_prices = <<>> THEN <<>>
    ELSE <<[name |-> Head(event_prices).platform, quote |-> Head(event_prices)]>>
         \o PlatformList_PerQuote(Tail(event_prices))

\* platform_list = list(platforms.items())
PlatformList(event_prices) == PlatformsUpTo(event_prices, Len(event_prices))

\* the pairs platform_list[i], platform_list[j] of the two nested range
\* loops, in the order visited, from (i, j) on
RECURSIVE PairsFrom(_, _, _, _)
PairsFrom(event_key, platform_list, i, j) ==
    IF i > Len(platform_list) THEN <<>>
    ELSE IF j > Len(platform_list)
         THEN PairsFrom(event_key, platform_list, i + 1, i + 2)
         ELSE <<[event_key |-> event_key,
                 a |-> platform_list[i],
                 b |-> platform_list[j]]>>
              \o PairsFrom(event_key, platform_list, i, j + 1)

\* if len(event_prices) < 2: continue
SkipGroup(event_prices) == Len(event_prices) < 2

\* if price1 > price2: swap prices and names
Swap(m1, m2) == FGt(m1, m2)

\* a swap of the prices that leaves the names in place
BuyName_NotSwapped(swap, p1_name, p2_name) == p1_name

\* the platform names after the conditional swap
BuyName(swap, p1_name, p2_name) == IF swap THEN p2_name ELSE p1_name
SellName(swap, p1_name, p2_name) == IF swap THEN p1_name ELSE p2_name

\* spread = ((price2 - price1) / price1) * 100, for price1 # 0
Spread(price1, price2) ==
    IF price1.nan \/ price2.nan THEN PctNaN
    ELSE Pct((price2.v - price1.v) * 1000, price1.v)

\* net_spread = spread - (2 * self.fee_pct)
NetSpread(spread) ==
    IF spread.nan THEN PctNaN
    ELSE Pct(spread.num - 2 * fee_pct * spread.den, spread.den)

\* if net_spread >= self.min_spread
Qualifies(net_spread) == PctGe(net_spread, min_spread)

\* float division raises ZeroDivisionError on a zero divisor, whatever the
\* dividend (NaN included); a NaN divisor does not raise
DivisionRaises(price1) == ~price1.nan /\ price1.v = 0

\* the body of the inner loop for platform_list[i], platform_list[j]
EvalPair(event_key, a, b) ==
    LET m1 == mid(a.quote)
        m2 == mid(b.quote)
        swap == Swap(m1, m2)
        price1 == IF swap THEN m2 ELSE m1
        price2 == IF swap THEN m1 ELSE m2
        net_spread == NetSpread(Spread(price1, price2))
    IN  [raises |-> DivisionRaises(price1),
         emits |-> ~DivisionRaises(price1) /\ Qualifies(net_spread),
         opp |-> [event |-> event_key,
                  buy_platform |-> BuyName(swap, a.name, b.name),
                  buy_price |-> price1,
                  sell_platform |-> SellName(swap, a.name, b.name),
                  sell_price |-> price2,
                  net_spread |-> net_spread]]

\* the pairs one group contributes, in the order visited
GroupPairs(grp) ==
    IF SkipGroup(grp.prices) THEN <<>>
    ELSE Bind(PlatformList(grp.prices),
              LAMBDA platform_list : PairsFrom(grp.key, platform_list, 1, 2))

RECURSIVE AllPairs(_, _)
AllPairs(g, i) ==
    IF i > Len(g) THEN <<>> ELSE GroupPairs(g[i]) \o AllPairs(g, i + 1)

\* the second loop: pairs are evaluated in order; the first division by zero
\* ends the call with an exception and nothing is returned
RECURSIVE RunPairs(_, _, _)
RunPairs(pairs, k, acc) ==
    IF k > Len(pairs) THEN [raised |-> FALSE, opportunities |-> acc]
    ELSE Bind(EvalPair(pairs[k].event_key, pairs[k].a, pairs[k].b),
              LAMBDA r :
                IF r.raises THEN [raised |-> TRUE, opportunities |-> <<>>]
                ELSE Bind(IF r.emits THEN Append(acc, r.opp) ELSE acc,
                          LAMBDA found : RunPairs(pairs, k + 1, found)))

process_prices(ps) ==
    Bind(AllPairs(Grouped(ps), 1), LAMBDA pairs : RunPairs(pairs, 1, <<>>))

-----------------------------------------------------------------------------
(* Inputs of the engine when it is called on its own *)

YES == <<"Y", "E", "S">>
NO == <<"N", "O">>

Fed == <<"F", "e", "d">>
FedCaps == <<"f", "E", "D">>
Gdp == <<"G", "d", "p">>

\* [bid, ask] in units of 1/200
Book(bid, ask) == [bid |-> bid, ask |-> ask]
Book41 == Book(Num(80), Num(84))            \* 0.40 / 0.42, mid 0.41
Book51 == Book(Num(100), Num(104))          \* 0.50 / 0.52, mid 0.51
BookNoBid == Book(Num(0), Num(84))          \* bid unknown, mid 0.5
BookZero == Book(Num(0 - 100), Num(100))    \* bid + ask = 0, mid 0
BookNeg == Book(Num(0 - 100), Num(0 - 60))  \* mid -0.40
BookNaN == Book(NaN, Num(84))               \* mid NaN
Book1000 == Book(Num(2), Num(398))          \* 0.01 / 1.99, mid 1.000
Book1045 == Book(Num(44), Num(374))         \* 0.22 / 1.87, mid 1.045: net 2.5 on 1.000

QuotesOf(platforms, names, outcomes, books) ==
    {MarketPrice(pl, 1, n, o, b.bid, b.ask) :
        pl \in platforms, n \in names, o \in outcomes, b \in books}

\* quotes that differ in event name and outcome
KeyQuotes ==
    QuotesOf({"Kalshi", "Polymarket"}, {Fed, FedCaps, Gdp}, {YES, NO},
             {Book41, Book51})

\* quotes of one event that differ in price
PriceQuotes ==
    QuotesOf({"Kalshi", "Polymarket", "Opinion"}, {Fed}, {YES},
             {Book41, Book51, BookNoBid, BookZero, BookNeg, BookNaN,
              Book1000, Book1045})

Lists(Q) == UNION {[1..n -> Q] : n \in 0..MaxQuotes}

NotRunning ==
    /\ pc = "unit"
    /\ iteration = 0
    /\ collector = 1
    /\ todo = <<>>
    /\ fetched = <<>>
    /\ delay = 0
    /\ exit_code = 0 - 1
    /\ log = <<>>

InitEngine(Q) ==
    /\ prices \in Lists(Q)
    /\ called = FALSE
    /\ grouped = <<>>
    /\ opportunities = <<>>
    /\ raised = FALSE
    /\ NotRunning

\* opportunities = engine.process_prices(prices)
ProcessPrices ==
    /\ pc = "unit"
    /\ ~called
    /\ called' = TRUE
    /\ grouped' = Grouped(prices)
    /\ \E result \in {process_prices(prices)} :
          /\ opportunities' = result.opportunities
          /\ raised' = result.raised
    /\ UNCHANGED <<prices, loopVars>>

InitKeys == InitEngine(KeyQuotes)
InitPrices == InitEngine(PriceQuotes)
NextEngine == ProcessPrices

SpecKeys == InitKeys /\ [][NextEngine]_vars
SpecPrices == InitPrices /\ [][NextEngine]_vars

-----------------------------------------------------------------------------
(* Exceptions and the except clauses around each place of the program *)

\* "Exception": a network, timeout, parse or arithmetic failure.
\* "KeyboardInterrupt": the user's interrupt, which asyncio delivers to the
\* coroutine at the await it is suspended in (as KeyboardInterrupt or as
\* CancelledError: both are BaseException and neither is an Exception) and
\* raises again from asyncio.run as KeyboardInterrupt.
IsInstance(exc, class) == class = "BaseException" \/ class = exc

\* except: pass, around one market's order-book request
InnerExcept == [at |-> "inner", class |-> "BaseException"]

\* a fetch-wide clause that catches nothing of what a request raises
OuterExcept_Nothing == [at |-> "outer", class |-> "Nothing"]

\* except Exception as e, around a collector's whole fetch
OuterExcept == [at |-> "outer", class |-> "Exception"]

\* a loop clause that catches nothing of what a cycle raises
MainExcept_Nothing == [at |-> "main", class |-> "Nothing"]

\* except Exception as e, around one cycle of main's loop
MainExcept == [at |-> "main", class |-> "Exception"]

\* except KeyboardInterrupt, around asyncio.run(main())
TopExcept == [at |-> "top", class |-> "KeyboardInterrupt"]

\* the except clauses around a site, innermost first
Handlers(site) ==
    CASE site = "orderbook" -> <<InnerExcept, OuterExcept, MainExcept, TopExcept>>
      [] site \in {"list", "entry"} -> <<OuterExcept, MainExcept, TopExcept>>
      [] site \in {"evaluate", "report", "sleep"} -> <<MainExcept, TopExcept>>
      [] site = "backoff" -> <<TopExcept>>

\* the clause that catches exc raised at site, "none" if none does
CaughtAt(site, exc) ==
    LET hs == Handlers(site)
        hit == {i \in 1..Len(hs) : IsInstance(exc, hs[i].class)}
    IN  IF hit = {} THEN "none"
        ELSE hs[CHOOSE i \in hit : \A j \in hit : i <= j].at

-----------------------------------------------------------------------------
(* The collectors and the scan loop *)

\* collectors = [KalshiCollector(), PolymarketCollector()]
collectors == <<"Kalshi", "Polymarket">>

\* a field of a JSON object: <<>> when the key is absent, <<x>> when present
Get(field, default) == IF field = <<>> THEN default ELSE field[1]

\* what the order-book endpoint of Kalshi may answer: 0.40 / 0.42; a bid
\* of -0.50 and no ask, which the default 0.5 turns into a mid of 0; an error
KalshiBooks ==
    {[status |-> 200, yes_bid |-> <<Num(80)>>, yes_ask |-> <<Num(84)>>],
     [status |-> 200, yes_bid |-> <<Num(0 - 100)>>, yes_ask |-> <<>>],
     [status |-> 500, yes_bid |-> <<>>, yes_ask |-> <<>>]}

\* what the order-book endpoint of Polymarket may answer: the best levels
PolymarketBooks ==
    {[status |-> 200, bids |-> <<Num(100)>>, asks |-> <<Num(104)>>],
     [status |-> 200, bids |-> <<>>, asks |-> <<Num(104)>>],
     [status |-> 500, bids |-> <<>>, asks |-> <<>>]}

Books(platform) == IF platform = "Kalshi" THEN KalshiBooks ELSE PolymarketBooks

\* the quotes one order-book answer adds to prices: none or one
KalshiQuote(market, ob) ==
    IF ob.status = 200
    THEN <<MarketPrice("Kalshi", market.market_id, market.title, YES,
                       Get(ob.yes_bid, Num(DEFAULT_MID)),
                       Get(ob.yes_ask, Num(DEFAULT_MID)))>>
    ELSE <<>>

PolymarketQuote(market, ob) ==
    IF ob.status = 200 /\ ob.bids # <<>> /\ ob.asks # <<>>
    THEN <<MarketPrice("Polymarket", market.market_id, market.title, YES,
                       ob.bids[1], ob.asks[1])>>
    ELSE <<>>

Quote(platform, market, ob) ==
    IF platform = "Kalshi" THEN KalshiQuote(market, ob)
    ELSE PolymarketQuote(market, ob)

\* data.get("markets", []) of a list answer with n markets
Markets(n) == [k \in 1..n |-> [market_id |-> k, title |-> Fed]]

Logged(market, result) ==
    Append(log, [collector |-> collector, market |-> market, result |-> result])

\* fetch_markets returns; main extends all_prices and goes on to the next
\* collector, or to the engine after the last
Return(f) ==
    /\ prices' = prices \o f
    /\ fetched' = <<>>
    /\ todo' = <<>>
    /\ IF collector < Len(collectors)
       THEN collector' = collector + 1 /\ pc' = "list"
       ELSE collector' = collector /\ pc' = "evaluate"
    /\ UNCHANGED <<delay, exit_code>>

\* the end of the for body: the next market, or the end of the fetch
NextMarket(f) ==
    IF Len(todo) > 1
    THEN /\ pc' = "market"
         /\ todo' = Tail(todo)
         /\ fetched' = f
         /\ UNCHANGED <<prices, collector, delay, exit_code>>
    ELSE Return(f)

\* main's except branch: log, then await asyncio.sleep(10)
Backoff ==
    /\ pc' = "backoff"
    /\ delay' = BACKOFF
    /\ fetched' = <<>>
    /\ todo' = <<>>
    /\ UNCHANGED <<prices, collector, exit_code>>

\* print("Scanner stopped"); exit(0)
Stopped ==
    /\ pc' = "stopped"
    /\ exit_code' = 0
    /\ fetched' = <<>>
    /\ todo' = <<>>
    /\ UNCHANGED <<prices, collector, delay>>

\* no clause catches: the interpreter prints the traceback and exits with 1
Crashed ==
    /\ pc' = "crashed"
    /\ exit_code' = 1
    /\ fetched' = <<>>
    /\ todo' = <<>>
    /\ UNCHANGED <<prices, collector, delay>>

\* exc is raised at site: control goes to the clause that catches it
Unwind(site, exc) ==
    CASE CaughtAt(site, exc) = "inner" -> NextMarket(fetched)
      [] CaughtAt(site, exc) = "outer" -> Return(fetched)
      [] CaughtAt(site, exc) = "main" -> Backoff
      [] CaughtAt(site, exc) = "top" -> Stopped
      [] OTHER -> Crashed

\* the await the program is suspended in at pc
Site(at) == IF at = "market" THEN "orderbook" ELSE at

Init ==
    /\ prices = <<>>
    /\ called = FALSE
    /\ grouped = <<>>
    /\ opportunities = <<>>
    /\ raised = FALSE
    /\ pc = "scan"
    /\ iteration = 0
    /\ collector = 1
    /\ todo = <<>>
    /\ fetched = <<>>
    /\ delay = 0
    /\ exit_code = 0 - 1
    /\ log = <<>>

\* the top of the while body, up to the first await: count the scan, print
\* its header, empty all_prices and send the first collector's list request
StartCycle ==
    /\ iteration < MaxCycles
    /\ iteration' = iteration + 1
    /\ prices' = <<>>
    /\ called' = FALSE
    /\ grouped' = <<>>
    /\ opportunities' = <<>>
    /\ raised' = FALSE
    /\ collector' = 1
    /\ todo' = <<>>
    /\ fetched' = <<>>
    /\ log' = <<>>
    /\ pc' = "list"
    /\ UNCHANGED <<delay, exit_code>>

\* main() starts: the banner, the collectors, the engine, the first scan
Scan ==
    /\ pc = "scan"
    /\ StartCycle

\* the list request answers 200 with n markets, n at most most
ListUpTo(most) ==
    /\ pc = "list"
    /\ \E n \in 0..most :
          /\ log' = Logged(0, "listed")
          /\ IF n = 0 THEN Return(<<>>)
             ELSE /\ pc' = "market"
                  /\ todo' = Markets(n)
                  /\ fetched' = <<>>
                  /\ UNCHANGED <<prices, collector, delay, exit_code>>
    /\ UNCHANGED <<called, grouped, opportunities, raised, iteration>>

ListOk == ListUpTo(MaxMarkets)

\* the list request answers another status: no market is visited
ListNot200 ==
    /\ pc = "list"
    /\ log' = Logged(0, "none")
    /\ Return(<<>>)
    /\ UNCHANGED <<called, grouped, opportunities, raised, iteration>>

\* the list request, or the parse of its answer, fails
ListFail ==
    /\ pc = "list"
    /\ log' = Logged(0, "failed")
    /\ Unwind("list", "Exception")
    /\ UNCHANGED <<called, grouped, opportunities, raised, iteration>>

\* a market entry of the list answer is malformed: market.get fails, outside
\* the per-market try
MarketFail ==
    /\ pc = "market"
    /\ log' = Logged(todo[1].market_id, "malformed")
    /\ Unwind("entry", "Exception")
    /\ UNCHANGED <<called, grouped, opportunities, raised, iteration>>

\* the order-book request of the current market answers
BookAnswer ==
    /\ pc = "market"
    /\ \E ob \in Books(collectors[collector]) :
          LET q == Quote(collectors[collector], todo[1], ob) IN
          /\ log' = Logged(todo[1].market_id,
                           IF q = <<>> THEN "none" ELSE "quote")
          /\ NextMarket(fetched \o q)
    /\ UNCHANGED <<called, grouped, opportunities, raised, iteration>>

\* the order-book request, or the parse of its answer, fails
BookFail ==
    /\ pc = "market"
    /\ log' = Logged(todo[1].market_id, "failed")
    /\ Unwind("orderbook", "Exception")
    /\ UNCHANGED <<called, grouped, opportunities, raised, iteration>>

\* opportunities = engine.process_prices(all_prices), then the report, with
\* no await between them: either the call raises, or a print of the report
\* fails (the stream is closed), or main reaches await
\* asyncio.sleep(POLL_INTERVAL)
Evaluate ==
    /\ pc = "evaluate"
    /\ called' = TRUE
    /\ grouped' = Grouped(prices)
    /\ \E result \in {process_prices(prices)} :
          /\ opportunities' = result.opportunities
          /\ raised' = result.raised
          /\ IF result.raised
             THEN Unwind("evaluate", "Exception")
             ELSE \E printed \in BOOLEAN :
                     IF printed
                     THEN /\ pc' = "sleep"
                          /\ delay' = POLL_INTERVAL
                          /\ UNCHANGED <<prices, collector, todo, fetched,
                                         exit_code>>
                     ELSE Unwind("report", "Exception")
    /\ UNCHANGED <<iteration, log>>

\* a sleep ends: the while loop runs its next iteration
Wake ==
    /\ pc \in {"sleep", "backoff"}
    /\ StartCycle

\* the user interrupts while the program is suspended in an await
Interrupt ==
    /\ pc \in {"list", "market", "sleep", "backoff"}
    /\ log' = Logged(IF pc = "market" THEN todo[1].market_id ELSE 0,
                     "interrupt")
    /\ Unwind(Site(pc), "KeyboardInterrupt")
    /\ UNCHANGED <<called, grouped, opportunities, raised, iteration>>

\* what the program does by itself
Step ==
    \/ Scan
    \/ ListOk
    \/ ListNot200
    \/ ListFail
    \/ MarketFail
    \/ BookAnswer
    \/ BookFail
    \/ Evaluate
    \/ Wake

Next == Step \/ Interrupt

Spec == Init /\ [][Next]_vars

\* the same over list answers of at most MaxListed markets
ShortListOk == ListUpTo(MaxListed)

ShortStep ==
    \/ Scan
    \/ ShortListOk
    \/ ListNot200
    \/ ListFail
    \/ MarketFail
    \/ BookAnswer
    \/ BookFail
    \/ Evaluate
    \/ Wake

ShortNext == ShortStep \/ Interrupt

\* the event loop runs every ready step: timers fire and each request ends,
\* by its answer, its failure or its timeout.  Nothing obliges the user to
\* interrupt.
LiveSpec == Init /\ [][ShortNext]_vars /\ WF_vars(ShortStep)

-----------------------------------------------------------------------------
(* What the claims read off a finished call *)

Indices(s) == 1..Len(s)

\* two quotes name the same event and outcome
SameEvent(p, q) ==
    Lower(p.event_name) = Lower(q.event_name) /\ p.outcome = q.outcome

InGroup(p, g) == \E n \in Indices(grouped[g].prices) : grouped[g].prices[n] = p

\* the groups whose key an opportunity carries
GroupsOf(o) == {g \in Indices(grouped) : grouped[g].key = o.event}

PlatformsIn(g) == {grouped[g].prices[n].platform : n \in Indices(grouped[g].prices)}

\* the places of a platform's quotes in a group, and its last quote there
PlacesOf(g, platform) ==
    {n \in Indices(grouped[g].prices) : grouped[g].prices[n].platform = platform}
LastPlace(g, platform) ==
    CHOOSE n \in PlacesOf(g, platform) : \A m \in PlacesOf(g, platform) : m <= n
LastQuote(g, platform) == grouped[g].prices[LastPlace(g, platform)]

\* the opportunities emitted for a group and a pair of platforms
EmittedFor(g, x, y) ==
    {k \in Indices(opportunities) :
        /\ opportunities[k].event = grouped[g].key
        /\ {opportunities[k].buy_platform, opportunities[k].sell_platform} = {x, y}}

-----------------------------------------------------------------------------
\* C1: quotes are grouped by lower-case(event_name) + "|" + outcome: two
\* quotes share a group exactly when their event names are equal ignoring
\* case and their outcomes are equal, and the two quotes an emitted
\* opportunity combines always agree on both.
C1_GroupedByEventAndOutcome ==
    called =>
        /\ \A i, j \in Indices(prices) :
              SameEvent(prices[i], prices[j])
                  <=> \E g \in Indices(grouped) :
                          InGroup(prices[i], g) /\ InGroup(prices[j], g)
        /\ \A k \in Indices(opportunities) :
              LET o == opportunities[k] IN
              /\ Cardinality(GroupsOf(o)) = 1
              /\ \A g \in GroupsOf(o) :
                    /\ {o.buy_platform, o.sell_platform} \subseteq PlatformsIn(g)
                    /\ SameEvent(LastQuote(g, o.buy_platform),
                                 LastQuote(g, o.sell_platform))
                    /\ \A n \in Indices(grouped[g].prices) :
                          SameEvent(grouped[g].prices[n],
                                    LastQuote(g, o.buy_platform))

\* an opportunity pairs two quotes whose event names differ in case only,
\* while a quote of the same event with the other outcome stays out of it
C1_Witness ==
    /\ called
    /\ \E k \in Indices(opportunities) : \E g \in GroupsOf(opportunities[k]) :
          /\ \E m, n \in Indices(grouped[g].prices) :
                grouped[g].prices[m].event_name # grouped[g].prices[n].event_name
          /\ \E i \in Indices(prices) :
                /\ Lower(prices[i].event_name) = Lower(grouped[g].prices[1].event_name)
                /\ prices[i].outcome # grouped[g].prices[1].outcome

\* C2: in every emitted opportunity buy_price <= sell_price, and the buy and
\* sell platforms are platforms of the group that quote the buy and the sell
\* price.
C2_BuyBelowSell ==
    called =>
        \A k \in Indices(opportunities) :
            LET o == opportunities[k] IN
            /\ FLe(o.buy_price, o.sell_price)
            /\ \A g \in GroupsOf(o) :
                  /\ \E n \in PlacesOf(g, o.buy_platform) :
                        mid(grouped[g].prices[n]) = o.buy_price
                  /\ \E n \in PlacesOf(g, o.sell_platform) :
                        mid(grouped[g].prices[n]) = o.sell_price

\* an opportunity whose buy platform was quoted after its sell platform: the
\* prices and the labels were swapped
C2_Witness ==
    /\ called
    /\ \E k \in Indices(opportunities) : \E g \in GroupsOf(opportunities[k]) :
          /\ opportunities[k].buy_price # opportunities[k].sell_price
          /\ \E m \in PlacesOf(g, opportunities[k].sell_platform) :
                \A n \in PlacesOf(g, opportunities[k].buy_platform) : m < n

\* C3: a key quoted by fewer than 2 distinct platforms yields no opportunity,
\* also when it has two or more quotes, all of one platform.
C3_NeedsTwoPlatforms ==
    called =>
        \A g \in Indices(grouped) :
            Cardinality(PlatformsIn(g)) < 2
                => ~\E k \in Indices(opportunities) :
                        opportunities[k].event = grouped[g].key

\* a finished call with a group of two quotes of one platform whose mids
\* differ
C3_Witness ==
    /\ called
    /\ ~raised
    /\ \E g \in Indices(grouped) :
          /\ Len(grouped[g].prices) >= 2
          /\ Cardinality(PlatformsIn(g)) = 1
          /\ \E m, n \in Indices(grouped[g].prices) :
                mid(grouped[g].prices[m]) # mid(grouped[g].prices[n])

\* C10: a group keeps one quote per platform, the last in input order: every
\* opportunity has two distinct platforms and carries the mids of their last
\* quotes, and a pair of platforms of a group yields at most one opportunity.
C10_LastQuoteWins ==
    called =>
        /\ \A k \in Indices(opportunities) :
              LET o == opportunities[k] IN
              /\ o.buy_platform # o.sell_platform
              /\ \A g \in GroupsOf(o) :
                    /\ {o.buy_platform, o.sell_platform} \subseteq PlatformsIn(g)
                    /\ o.buy_price = mid(LastQuote(g, o.buy_platform))
                    /\ o.sell_price = mid(LastQuote(g, o.sell_platform))
        /\ \A g \in Indices(grouped) : \A x, y \in PlatformsIn(g) :
              Cardinality(EmittedFor(g, x, y)) <= 1

\* an opportunity whose buy platform had an earlier quote with another mid
C10_Witness ==
    /\ called
    /\ \E k \in Indices(opportunities) : \E g \in GroupsOf(opportunities[k]) :
          \E n \in PlacesOf(g, opportunities[k].buy_platform) :
              mid(grouped[g].prices[n]) # opportunities[k].buy_price

-----------------------------------------------------------------------------
\* a quote the specification calls malformed: its mid is negative or NaN
Malformed(p) == mid(p).nan \/ mid(p).v < 0

WellFormedOnly(ps) == SelectSeq(ps, LAMBDA p : ~Malformed(p))

\* the two mids of a pair of platforms of a group, lower first
LowMid(g, x, y) ==
    IF FGt(mid(LastQuote(g, x)), mid(LastQuote(g, y)))
    THEN mid(LastQuote(g, y)) ELSE mid(LastQuote(g, x))
HighMid(g, x, y) ==
    IF FGt(mid(LastQuote(g, x)), mid(LastQuote(g, y)))
    THEN mid(LastQuote(g, x)) ELSE mid(LastQuote(g, y))

\* (sell - buy) / buy * 100 - 2 * fee_pct, in tenths of a percent
ClaimedNet(buy, sell) ==
    IF buy.nan \/ sell.nan THEN PctNaN
    ELSE Pct((sell.v - buy.v) * 1000 - 2 * fee_pct * buy.v, buy.v)

\* net_spread >= min_spread; a buy price of 0 is "no opportunity"
ClaimedEmit(buy, sell) ==
    /\ ~buy.nan /\ ~sell.nan /\ buy.v # 0
    /\ PctGe(ClaimedNet(buy, sell), min_spread)

\* C4: every pair of distinct platforms of a group yields exactly one
\* opportunity if net_spread >= min_spread and none otherwise, and the
\* opportunity carries that net_spread.
C4_OneOpportunityIffNetSpread ==
    called =>
        \A g \in Indices(grouped) : \A x, y \in PlatformsIn(g) :
            x # y =>
                /\ Cardinality(EmittedFor(g, x, y)) =
                      IF ClaimedEmit(LowMid(g, x, y), HighMid(g, x, y))
                      THEN 1 ELSE 0
                /\ \A k \in EmittedFor(g, x, y) :
                      PctEq(opportunities[k].net_spread,
                            ClaimedNet(LowMid(g, x, y), HighMid(g, x, y)))

\* C4 for the calls that return: what the code does apart from the division
\* by zero of C5
C4_WhenReturned == (called /\ raised) \/ C4_OneOpportunityIffNetSpread

\* C5: process_prices never fails with a division by zero.
C5_NeverDividesByZero == called => ~raised

\* C6: a quote with a negative or NaN mid is excluded before any spread is
\* computed: a call that returns emits what the call on the well-formed
\* quotes alone emits (when that call returns), and no emitted price is
\* negative.
C6_MalformedExcluded ==
    (called /\ ~raised /\ ~process_prices(WellFormedOnly(prices)).raised) =>
        /\ opportunities = process_prices(WellFormedOnly(prices)).opportunities
        /\ \A k \in Indices(opportunities) :
              /\ opportunities[k].buy_price.v >= 0
              /\ opportunities[k].sell_price.v >= 0

\* the part of C6 the arithmetic happens to give: no emitted price is
\* negative or NaN
C6_NoNegativeEmitted ==
    called =>
        \A k \in Indices(opportunities) :
            /\ ~opportunities[k].buy_price.nan /\ opportunities[k].buy_price.v >= 0
            /\ ~opportunities[k].sell_price.nan /\ opportunities[k].sell_price.v >= 0

-----------------------------------------------------------------------------
(* What the claims read off the scan loop *)

\* the user has interrupted since the cycle began
Interrupted == \E k \in Indices(log) : log[k].result = "interrupt"

\* the positions inside one cycle
InCycle == {"list", "market", "evaluate"}

\* the markets this cycle's log says gave a quote, in order
QuotedMarkets ==
    LET got == SelectSeq(log, LAMBDA e : e.result = "quote")
    IN  [k \in 1..Len(got) |-> <<collectors[got[k].collector], got[k].market>>]

\* the markets the quotes handed to the engine come from, in order
PricedMarkets == [k \in 1..Len(prices) |-> <<prices[k].platform, prices[k].event_id>>]

\* C7: an exception inside a cycle never ends the loop: a cycle is left only
\* into the poll sleep (after a finished report), into the backoff sleep
\* (after an exception), or by an interrupt; the backoff is 10 s, at least
\* twice POLL_INTERVAL, and the sleep after a good cycle is POLL_INTERVAL;
\* every cycle ends and, unless the user interrupts, each sleep is followed
\* by the top of the loop.
C7_LoopSurvivesFailures ==
    /\ [](pc # "crashed")
    /\ [](pc = "backoff" => delay = BACKOFF /\ delay >= 2 * POLL_INTERVAL)
    /\ [](pc = "sleep" => delay = POLL_INTERVAL /\ called /\ ~raised)
    /\ [][(pc \in InCycle /\ pc' \notin InCycle) =>
            \/ pc' = "sleep" /\ pc = "evaluate" /\ ~raised'
            \/ pc' = "backoff" /\ pc = "evaluate"
            \/ pc' = "stopped" /\ Interrupted']_vars
    /\ [](pc \in InCycle => <>(pc \in {"sleep", "backoff", "stopped"}))
    /\ [](pc \in {"sleep", "backoff"} /\ iteration < MaxCycles
            => <>(pc \in {"list", "stopped"}))

\* a second cycle is collecting after a first one failed and backed off
C7_Witness ==
    /\ pc = "list"
    /\ iteration >= 2
    /\ delay = BACKOFF

\* C8: an interrupt, wherever it arrives, ends the process cleanly with exit
\* code 0, and no clause absorbs it.
C8_InterruptStopsCleanly == Interrupted => (pc = "stopped" /\ exit_code = 0)

\* what the code does give: an interrupt during the list request or a sleep
\* stops the process with exit code 0
C8_StopsOutsideMarkets ==
    [][(Interrupted' /\ ~Interrupted /\ pc # "market") =>
            (pc' = "stopped" /\ exit_code' = 0)]_vars

\* C9: a failure inside fetch_markets never reaches the scan loop: the loop
\* backs off only after the engine was called; when the engine is reached,
\* every collector was invoked, and the engine gets exactly the quotes of the
\* markets whose order-book request gave one, whatever failed beside them.
C9_CollectorFailuresStayLocal ==
    /\ pc \in {"backoff", "crashed"} => called
    /\ pc = "evaluate" =>
          /\ \A c \in 1..Len(collectors) :
                \E k \in Indices(log) : log[k].collector = c /\ log[k].market = 0
          /\ PricedMarkets = QuotedMarkets

\* the engine is reached in a cycle in which one collector's list request
\* failed and the other collector lost one market's order book and still
\* returned the quote of another market
C9_Witness ==
    /\ pc = "evaluate"
    /\ \E i, j \in Indices(log) :
          /\ log[i].market = 0 /\ log[i].result = "failed"
          /\ log[j].market # 0 /\ log[j].result = "failed"
          /\ log[j].collector # log[i].collector
          /\ \E k \in Indices(prices) :
                /\ prices[k].platform = collectors[log[j].collector]
                /\ prices[k].event_id # log[j].market

====
